---- MODULE Spec2Model ----
(***************************************************************************)
(* The push path of go-replicache (src/replicache.go): the HTTP handler    *)
(* returned by Replicache.PushHandler and Replicache.handlePush, run by    *)
(* several requests at once against one transactional store (rep.db).      *)
(*                                                                         *)
(* Each request is a small process: the body is decoded and the version    *)
(* checked (PushHandler), a serializable transaction is opened (BeginTx),   *)
(* the Handler is called with the whole batch and the transaction          *)
(* (HandlePush), and the transaction is committed (Commit); every error    *)
(* path leaves through the deferred tx.Rollback().                         *)
(*                                                                         *)
(* The store and the Handler are collaborators of the core.  The store is  *)
(* a table of applied mutation effects (written by the Handler through the *)
(* transaction) and the client rows holding LastMutationID (which the      *)
(* core would maintain: handlePush has only TODOs there and writes         *)
(* nothing).  The Handler applies the mutations it is handed, in order,    *)
(* through the transaction, and may fail at any of them.  The context of   *)
(* a request can be cancelled while its transaction is open (Cancel).      *)
(*                                                                         *)
(* The source declares PullHandler and PullRequest and has no pull         *)
(* pipeline; SpecPull adds the pull the specification describes to the     *)
(* pushes, for the one property that is about pulls.                       *)
(***************************************************************************)
EXTENDS Integers, Sequences, FiniteSets, TLC

\* ------------------------------------------------------------- bounds
MaxPushes == 2      \* push requests received in one behaviour
MaxBatch  == 2      \* mutations in one push batch
MaxID     == 2      \* largest mutation id a client sends

\* the only push version the handler accepts
SupportedPushVersion == 1

StatusOK == 200
StatusInternalServerError == 500

Reqs     == 1..MaxPushes
Clients  == {"c1", "c2"}
Groups   == {"g1", "g2"}
IDs      == 1..MaxID
Versions == 0..(SupportedPushVersion + 1)
Profiles == {"p1", "p2"}
Schemas  == {"s1"}
Tokens   == {"t1"}

\* Mutation (ClientID, ID); Name, Args and Timestamp are opaque to the core
Mutation == [clientID : Clients, id : IDs]

RECURSIVE SeqsUpTo(_, _)
SeqsUpTo(S, n) ==
  IF n = 0 THEN {<<>>}
  ELSE LET shorter == SeqsUpTo(S, n - 1)
       IN  shorter \cup {Append(s, x) : s \in {t \in shorter : Len(t) = n - 1}, x \in S}

Batches == SeqsUpTo(Mutation, MaxBatch)

\* what a push request carries: a body that decodes or not, and its fields
\* what a push request carries: the Authorization header, and a body that
\* decodes or not, with its fields
NoBody == [decodes |-> FALSE, pushVersion |-> 0, clientGroupID |-> "", profileID |-> "",
           schemaVersion |-> "", auth |-> "", mutations |-> <<>>]

Bodies ==
  [decodes : {TRUE}, pushVersion : Versions, clientGroupID : Groups, profileID : Profiles,
   schemaVersion : Schemas, auth : Tokens, mutations : Batches]
  \cup {NoBody}

\* ClientInfo and PushRequest; the transaction is named by the request that
\* opened it (0: no transaction)
NoInfo == [auth |-> "", clientGroupID |-> "", profileID |-> "", schemaVersion |-> ""]

NoRequest == [info |-> NoInfo, mutations |-> <<>>, tx |-> 0]

\* clientOnPush of the default instance: no Option sets it
clientOnPush == FALSE

\* ------------------------------------------------------------- store
Keys == Groups \X Clients \X IDs

NoEffects == [k \in Keys |-> 0]

\* the effects of the first n mutations of a batch, applied under group g
RECURSIVE Effects(_, _, _)
Effects(g, muts, n) ==
  IF n = 0 THEN NoEffects
  ELSE LET rest == Effects(g, muts, n - 1)
           k    == <<g, muts[n].clientID, muts[n].id>>
       IN  [rest EXCEPT ![k] = @ + 1]

ClientsOf(muts) == {muts[i].clientID : i \in 1..Len(muts)}

VARIABLES
  db,        \* committed store: applied effects and client rows
  pc,        \* where each request is
  req,       \* the decoded request of each request
  tx,        \* the transaction of each request
  status,    \* the HTTP status written (0: none yet)
  calls,     \* how often the Handler was invoked for the request
  given,     \* the PushRequest the Handler was invoked with
  pulled,    \* the result of the latest pull
  commits    \* number of transactions committed so far

vars == <<db, pc, req, tx, status, calls, given, pulled, commits>>

\* a transaction: its handle and isolation level, its state, the effects
\* written through it and not yet committed, the store it began from, how many
\* mutations the Handler applied through it, the error that ended it, whether
\* its context was cancelled, and when it began and ended (counted in commits)
NoTx == [id |-> 0, isolation |-> "none", state |-> "none", writes |-> NoEffects,
         snap |-> NoEffects, applied |-> 0, err |-> "none", canceled |-> FALSE,
         beganAt |-> 0, endedAt |-> 0]

\* no pull yet
NoPull == [clientGroupID |-> "", at |-> 0, patch |-> NoEffects,
           lastMutationIDChanges |-> [c \in Clients |-> 0]]

Init ==
  /\ db = [applied |-> NoEffects, lastMutationID |-> [c \in Clients |-> 0]]
  /\ pc = [r \in Reqs |-> "idle"]
  /\ req = [r \in Reqs |-> NoBody]
  /\ tx = [r \in Reqs |-> NoTx]
  /\ status = [r \in Reqs |-> 0]
  /\ calls = [r \in Reqs |-> 0]
  /\ given = [r \in Reqs |-> NoRequest]
  /\ pulled = NoPull
  /\ commits = 0

\* ------------------------------------------------------------- PushHandler
\* (a gate that forgets the version check)
Accepted_AnyVersion(body) == body.decodes

\* the gate of PushHandler: the body decoded and carries the supported version
Accepted(body) == body.decodes /\ body.pushVersion = SupportedPushVersion

\* what the handler keeps of a body: a rejected request returns before its
\* ClientGroupID and Mutations are ever copied into a ClientInfo
Kept(body) ==
  IF Accepted(body) THEN body
  ELSE [NoBody EXCEPT !.decodes = body.decodes, !.pushVersion = body.pushVersion]

\* A request arrives (requests are numbered in order of arrival): the body is
\* decoded and the version checked; a rejected request is answered at once.
PushHandler(r) ==
  /\ pc[r] = "idle"
  /\ \A q \in Reqs : q < r => pc[q] # "idle"
  /\ \E body \in Bodies :
       /\ req' = [req EXCEPT ![r] = Kept(body)]
       /\ IF Accepted(body)
          THEN /\ pc' = [pc EXCEPT ![r] = "begin"]
               /\ status' = status
          ELSE /\ pc' = [pc EXCEPT ![r] = "done"]
               /\ status' = [status EXCEPT ![r] = StatusInternalServerError]
  /\ UNCHANGED <<db, tx, calls, given, pulled, commits>>

\* ------------------------------------------------------------- handlePush
\* (a handlePush that goes on after BeginTx failed)
AfterBegin_IgnoringErr(ok) == "handler"

\* where handlePush goes after rep.db.BeginTx: on, or back with the error
AfterBegin(ok) == IF ok THEN "handler" ELSE "done"

\* (a handler that answers 200 whatever handlePush returned)
StatusFor_AlwaysOK(err) == StatusOK

\* the status PushHandler writes for what handlePush returned
StatusFor(err) == IF err = "none" THEN StatusOK ELSE StatusInternalServerError

\* rep.db.BeginTx(ctx, serializable): a snapshot of the store, or an error
BeginTx(r) ==
  /\ pc[r] = "begin"
  /\ \E ok \in BOOLEAN :
       /\ tx' = [tx EXCEPT ![r] =
                   IF ok
                   THEN [NoTx EXCEPT !.id = r, !.isolation = "serializable",
                                     !.state = "open", !.snap = db.applied,
                                     !.beganAt = commits]
                   ELSE [NoTx EXCEPT !.err = "begin"]]
       /\ pc' = [pc EXCEPT ![r] = AfterBegin(ok)]
       /\ status' = IF AfterBegin(ok) = "done"
                    THEN [status EXCEPT ![r] = StatusFor("begin")]
                    ELSE status
  /\ UNCHANGED <<db, req, calls, given, pulled, commits>>

\* The request's context is cancelled while its transaction is open: the sql
\* package rolls the transaction back (the context was given to BeginTx).
Cancel(r) ==
  /\ pc[r] \in {"handler", "commit"}
  /\ tx[r].state = "open"
  /\ tx' = [tx EXCEPT ![r] = [@ EXCEPT !.state = "rolledback", !.writes = NoEffects,
                                       !.snap = NoEffects, !.canceled = TRUE,
                                       !.endedAt = commits]]
  /\ UNCHANGED <<db, pc, req, status, calls, given, pulled, commits>>

\* (a handlePush without the deferred tx.Rollback())
Ended_WithoutRollback(t, how, why, now) ==
  IF how = "rolledback" /\ t.state = "open"
  THEN [t EXCEPT !.err = why, !.endedAt = now]
  ELSE [t EXCEPT !.state = how, !.writes = NoEffects, !.snap = NoEffects,
                 !.err = why, !.endedAt = now]

\* the transaction once it is over: nothing is pending in it any more
Ended(t, how, why, now) ==
  [t EXCEPT !.state = how, !.writes = NoEffects, !.snap = NoEffects,
            !.err = why, !.endedAt = now]

\* (a handlePush that goes on to commit after a Handler error)
StoreAfter_IgnoringHandlerErr(d, t, handlerErr, commitErr) ==
  IF commitErr = "none"
  THEN [d EXCEPT !.applied = [k \in Keys |-> d.applied[k] + t.writes[k]]]
  ELSE d

\* (a store in which a failed commit leaves the writes behind)
StoreAfter_IgnoringCommitErr(d, t, handlerErr, commitErr) ==
  IF handlerErr = "none"
  THEN [d EXCEPT !.applied = [k \in Keys |-> d.applied[k] + t.writes[k]]]
  ELSE d

\* the store once handlePush has returned, given the error of the Handler and
\* the error of the commit ("none": no error).  tx.Commit() is reached only
\* when the Handler returned nil, and installs the writes only when it
\* succeeds; every other path ends in the deferred tx.Rollback().
StoreAfter(d, t, handlerErr, commitErr) ==
  IF handlerErr = "none" /\ commitErr = "none"
  THEN [d EXCEPT !.applied = [k \in Keys |-> d.applied[k] + t.writes[k]]]
  ELSE d

\* (a ClientInfo with ProfileID and SchemaVersion swapped)
Info_Swapped(body) ==
  [auth |-> body.auth, clientGroupID |-> body.clientGroupID,
   profileID |-> body.schemaVersion, schemaVersion |-> body.profileID]

\* the ClientInfo PushHandler builds from the header and the decoded body
Info(body) ==
  [auth |-> body.auth, clientGroupID |-> body.clientGroupID,
   profileID |-> body.profileID, schemaVersion |-> body.schemaVersion]

\* (a PushRequest that leaves the transaction out)
PushRequestOf_NoTx(info, mutations, t) ==
  [info |-> info, mutations |-> mutations, tx |-> 0]

\* the PushRequest handlePush builds for the Handler
PushRequestOf(info, mutations, t) ==
  [info |-> info, mutations |-> mutations, tx |-> t]

\* rep.handler.HandlePush(ctx, PushRequest{info, mutations, tx}): the Handler
\* is handed the whole batch as received; it applies the first n mutations
\* through the transaction it is given and returns an error or, having gone
\* through all of them, nil.  What it writes through anything but an open
\* transaction is lost.  On an error handlePush returns it.
HandlePush(r) ==
  /\ pc[r] = "handler"
  /\ \E n \in 0..Len(req[r].mutations), failed \in BOOLEAN :
       /\ (~failed) => n = Len(req[r].mutations)
       /\ LET pr == PushRequestOf(Info(req[r]), req[r].mutations, tx[r].id)
              w  == IF pr.tx = r /\ tx[r].state = "open"
                    THEN Effects(pr.info.clientGroupID, pr.mutations, n)
                    ELSE NoEffects
              t  == [tx[r] EXCEPT !.writes = w, !.applied = n]
          IN  /\ calls' = [calls EXCEPT ![r] = @ + 1]
              /\ given' = [given EXCEPT ![r] = pr]
              /\ IF failed
                 THEN /\ db' = StoreAfter(db, t, "handler", "none")
                      /\ tx' = [tx EXCEPT ![r] = Ended(t, "rolledback", "handler", commits)]
                      /\ pc' = [pc EXCEPT ![r] = "done"]
                      /\ status' = [status EXCEPT ![r] = StatusFor("handler")]
                 ELSE /\ db' = db
                      /\ tx' = [tx EXCEPT ![r] = t]
                      /\ pc' = [pc EXCEPT ![r] = "commit"]
                      /\ status' = status
  /\ UNCHANGED <<req, pulled, commits>>

\* rows of the clients of a batch that another transaction has committed to
\* since transaction t began
RowsChanged(d, t, muts) ==
  \E k \in Keys : k[2] \in ClientsOf(muts) /\ d.applied[k] # t.snap[k]

\* (a commit that goes through on a transaction that is already over)
CommitOutcomes_IgnoringDone(d, t, muts) ==
  {"none", "commit"} \cup (IF RowsChanged(d, t, muts) THEN {"conflict"} ELSE {})

\* the outcomes tx.Commit() can have.  On a transaction that is already over
\* (its context was cancelled) it fails.  Serializable isolation reports a
\* conflict only against rows the transaction has read and another has since
\* committed to; handlePush itself reads no row (the client state is a TODO),
\* so whether there is one is up to what the Handler read.  A commit may also
\* fail for any other reason.
CommitOutcomes(d, t, muts) ==
  IF t.state # "open" THEN {"txdone"}
  ELSE {"none", "commit"} \cup (IF RowsChanged(d, t, muts) THEN {"conflict"} ELSE {})

\* tx.Commit(), then the return of handlePush and the status written
Commit(r) ==
  /\ pc[r] = "commit"
  /\ \E err \in CommitOutcomes(db, tx[r], req[r].mutations) :
       /\ db' = StoreAfter(db, tx[r], "none", err)
       /\ IF err = "none"
          THEN /\ tx' = [tx EXCEPT ![r] = Ended(tx[r], "committed", "none", commits + 1)]
               /\ commits' = commits + 1
          ELSE /\ tx' = [tx EXCEPT ![r] = Ended(tx[r], "rolledback", err, commits)]
               /\ commits' = commits
       /\ status' = [status EXCEPT ![r] = StatusFor(err)]
       /\ pc' = [pc EXCEPT ![r] = "done"]
  /\ UNCHANGED <<req, calls, given, pulled>>

\* ------------------------------------------------------------- pull
\* what a pull of group g returns from store d after `now` commits: the
\* effects applied under the group since the empty cookie, and the
\* LastMutationID the store holds for each client
PullResult(d, g, now) ==
  [clientGroupID |-> g, at |-> now,
   patch |-> [k \in Keys |-> IF k[1] = g THEN d.applied[k] ELSE 0],
   lastMutationIDChanges |-> d.lastMutationID]

\* a pull of a group, in one read-only serializable transaction: it sees the
\* committed store and changes nothing in it
Pull(g) ==
  /\ pulled' = PullResult(db, g, commits)
  /\ UNCHANGED <<db, pc, req, tx, status, calls, given, commits>>

Next ==
  \E r \in Reqs :
    \/ PushHandler(r)
    \/ BeginTx(r)
    \/ HandlePush(r)
    \/ Commit(r)
    \/ Cancel(r)

Spec == Init /\ [][Next]_vars

\* The pushes one after the other, with pulls between them: the source has no
\* pull pipeline (PullHandler and PullRequest are declared, nothing calls
\* them), so the pull is the one the specification describes, over the store
\* the push path leaves.
Turn(r) == \A q \in Reqs \ {r} : pc[q] \in {"idle", "done"}

NextPull ==
  \/ \E r \in Reqs :
       /\ Turn(r)
       /\ \/ PushHandler(r)
          \/ BeginTx(r)
          \/ HandlePush(r)
          \/ Commit(r)
  \/ \E g \in Groups : Pull(g)

SpecPull == Init /\ [][NextPull]_vars

TypeOK ==
  /\ pc \in [Reqs -> {"idle", "begin", "handler", "commit", "done"}]
  /\ status \in [Reqs -> {0, StatusOK, StatusInternalServerError}]
  /\ calls \in [Reqs -> 0..1]
  /\ commits \in 0..MaxPushes

\* ------------------------------------------------------------- properties
Committed(r) == tx[r].state = "committed"

Batch(r) == req[r].mutations

\* r began only after q had committed: r is a later push, not a racing one
After(r, q) == Committed(q) /\ tx[r].state # "none" /\ tx[r].beganAt >= tx[q].endedAt

\* r began before q committed and committed after it
Raced(r, q) ==
  /\ Committed(q) /\ Committed(r)
  /\ tx[r].beganAt < tx[q].endedAt
  /\ tx[q].endedAt < tx[r].endedAt

RECURSIVE SumOver(_, _)
SumOver(f, S) ==
  IF S = {} THEN 0
  ELSE LET x == CHOOSE y \in S : TRUE IN f[x] + SumOver(f, S \ {x})

\* how often the effect of mutation id of client c is in the committed store
TimesApplied(c, id) == SumOver([g \in Groups |-> db.applied[<<g, c, id>>]], Groups)

\* the groups under which effects of client c are in the committed store
GroupsOf(c) == {g \in Groups : \E id \in IDs : db.applied[<<g, c, id>>] > 0}

\* the id of the last mutation of client c in a batch
LastIDOf(muts, c) ==
  LET at == {i \in 1..Len(muts) : muts[i].clientID = c}
  IN  muts[CHOOSE i \in at : \A j \in at : j <= i].id

\* the ordering rule of the push pipeline, run over a batch from the counters
\* lmid: TRUE when some mutation is ahead of its client's LastMutationID + 1
RECURSIVE HasGap(_, _, _)
HasGap(muts, i, lmid) ==
  IF i > Len(muts) THEN FALSE
  ELSE LET c == muts[i].clientID
           expected == lmid[c] + 1
       IN  IF muts[i].id > expected THEN TRUE
           ELSE IF muts[i].id = expected
                THEN HasGap(muts, i + 1, [lmid EXCEPT ![c] = muts[i].id])
                ELSE HasGap(muts, i + 1, lmid)

\* the committed store holds exactly the whole batches of the committed pushes
RECURSIVE EffectsOfCommitted(_)
EffectsOfCommitted(R) ==
  IF R = {} THEN NoEffects
  ELSE LET r    == CHOOSE q \in R : TRUE
           rest == EffectsOfCommitted(R \ {r})
           mine == IF Committed(r)
                   THEN Effects(req[r].clientGroupID, Batch(r), Len(Batch(r)))
                   ELSE NoEffects
       IN  [k \in Keys |-> rest[k] + mine[k]]

\* C1 (as claimed): a push of batch B that begins after a push of the same B
\* by the same group has committed leaves the store as it was: the retry
\* changes neither the applied effects nor any LastMutationID.
C1_PushIdempotent ==
  [][\A r, q \in Reqs :
       (/\ r # q /\ pc[r] = "commit" /\ After(r, q)
        /\ Batch(r) = Batch(q) /\ req[r].clientGroupID = req[q].clientGroupID)
       => (pc'[r] = "done" => db' = db)]_vars

\* C2 (as claimed): a batch with a mutation ahead of its client's
\* LastMutationID + 1 is never committed: the push fails and applies nothing.
C2_GapRejected ==
  \A r \in Reqs :
    (pc[r] = "done" /\ calls[r] > 0 /\ HasGap(Batch(r), 1, db.lastMutationID))
    => (status[r] = StatusInternalServerError /\ ~Committed(r))

\* C3: when the Handler fails, whatever it had applied, the push answers with
\* an error, its transaction is rolled back and never committed, and the
\* store is what it was: nothing of the batch is in it, and what earlier
\* pushes committed is unchanged.
C3_AtomicBatch ==
  /\ [][\A r \in Reqs :
          (pc[r] = "handler" /\ pc'[r] # "commit" /\ calls'[r] # calls[r])
          => /\ db' = db
             /\ pc'[r] = "done"
             /\ status'[r] = StatusInternalServerError
             /\ tx'[r].state = "rolledback"
             /\ tx'[r].writes = NoEffects]_vars
  /\ [][\A r \in Reqs :
          (pc[r] = "handler" /\ pc'[r] = "commit")
          => tx'[r].applied = Len(Batch(r))]_vars
  /\ [](\A r \in Reqs : tx[r].err = "handler" => ~Committed(r))

\* a push failed at its k-th mutation, k > 1, after an earlier push of the
\* same group and client had committed
C3_Witness ==
  \E r, q \in Reqs :
    /\ pc[r] = "done" /\ tx[r].err = "handler" /\ tx[r].applied >= 1
    /\ After(r, q) /\ Len(Batch(q)) > 0
    /\ db.applied = Effects(req[q].clientGroupID, Batch(q), Len(Batch(q)))

\* C4 (as claimed): LastMutationID starts at 0, changes only when a push
\* commits, never decreases, and after a committed push equals, for every
\* client of the batch, the id of the last mutation applied for it.
C4_Bookkeeping ==
  /\ [][\A c \in Clients :
          /\ db'.lastMutationID[c] >= db.lastMutationID[c]
          /\ db'.lastMutationID[c] # db.lastMutationID[c] => commits' = commits + 1]_vars
  /\ [](\A r \in Reqs :
          (Committed(r) /\ tx[r].endedAt = commits)
          => \A c \in ClientsOf(Batch(r)) : db.lastMutationID[c] = LastIDOf(Batch(r), c))

\* C5 (as claimed): the effect of a given mutation id of a given client is in
\* the committed store at most once.
C5_AtMostOnce ==
  \A c \in Clients, id \in IDs : TimesApplied(c, id) <= 1

\* C6 (as claimed): of two pushes for the same client that began from the
\* same client state, at most one commits: none commits after a push that
\* committed to the same client since it began.
C6_NoRacingCommits ==
  \A r, q \in Reqs :
    (r # q /\ ClientsOf(Batch(r)) \cap ClientsOf(Batch(q)) # {}) => ~Raced(r, q)

\* C7: a transaction is committed only after the Handler returned nil for the
\* whole batch and the commit succeeded; a push that failed, for whatever
\* reason, has its transaction rolled back (or never had one), and the store
\* holds exactly the batches of the committed pushes.
C7_CommitOnlyOnSuccess ==
  /\ db.applied = EffectsOfCommitted(Reqs)
  /\ \A r \in Reqs :
       /\ Committed(r) =>
            /\ calls[r] = 1 /\ tx[r].applied = Len(Batch(r))
            /\ tx[r].err = "none" /\ status[r] = StatusOK
       /\ (pc[r] = "done" /\ status[r] # StatusOK) =>
            /\ tx[r].state \in {"none", "rolledback"}
            /\ tx[r].writes = NoEffects
       /\ pc[r] = "done" => tx[r].state # "open"

\* one push committed its batch, another lost its batch to a failed commit
C7_Witness ==
  \E r, q \in Reqs :
    /\ Committed(q) /\ Len(Batch(q)) > 0
    /\ pc[r] = "done" /\ tx[r].err = "commit" /\ tx[r].applied > 0
    /\ status[r] = StatusInternalServerError

\* C8: a request that does not decode, or whose pushVersion is not 1, is
\* answered 500 at once: no transaction is opened for it, the Handler is not
\* invoked, and the store is unchanged.
C8_VersionGate ==
  /\ [][\A r \in Reqs :
          (pc[r] = "idle" /\ pc'[r] # "idle"
           /\ (~req'[r].decodes \/ req'[r].pushVersion # 1))
          => /\ pc'[r] = "done"
             /\ status'[r] = StatusInternalServerError
             /\ db' = db]_vars
  /\ [](\A r \in Reqs :
          (pc[r] # "idle" /\ (~req[r].decodes \/ req[r].pushVersion # 1))
          => /\ pc[r] = "done"
             /\ status[r] = StatusInternalServerError
             /\ tx[r] = NoTx
             /\ calls[r] = 0)

\* a request with another pushVersion was rejected while the store held the
\* committed batch of an accepted one
C8_Witness ==
  \E r, q \in Reqs :
    /\ pc[r] = "done" /\ req[r].decodes /\ req[r].pushVersion = 2
    /\ status[r] = StatusInternalServerError
    /\ Committed(q) /\ Len(Batch(q)) > 0

\* C9 (as claimed): a push whose batch names a client that already belongs to
\* another group (an earlier push of that group for it has committed) does
\* not commit.
C9_ForeignClientRejected ==
  \A r, q \in Reqs :
    (/\ After(r, q) /\ calls[r] > 0 /\ pc[r] = "done"
     /\ req[r].clientGroupID # req[q].clientGroupID
     /\ ClientsOf(Batch(r)) \cap ClientsOf(Batch(q)) # {})
    => (status[r] = StatusInternalServerError /\ ~Committed(r))

\* C10 (as claimed): the committed store never holds a client under two
\* groups.
C10_SingleGroup ==
  \A c \in Clients : Cardinality(GroupsOf(c)) <= 1

\* the profiles under which pushes of r's group committed before r began
OwnersBefore(r) ==
  {req[q].profileID : q \in {q \in Reqs : /\ q # r /\ After(r, q)
                                          /\ req[q].clientGroupID = req[r].clientGroupID}}

\* C11 (as claimed): a push for a group that an earlier push holds under
\* another profile, and a push for a group no push has created while
\* createOnPush is off, fail and persist nothing.
C11_GroupResolution ==
  \A r \in Reqs :
    (/\ pc[r] = "done" /\ tx[r].id # 0
     /\ \/ OwnersBefore(r) = {} /\ ~clientOnPush
        \/ \E p \in OwnersBefore(r) : p # req[r].profileID)
    => (status[r] = StatusInternalServerError /\ ~Committed(r))

\* C12: once the context of a push is cancelled while its transaction is
\* open, the transaction is rolled back, nothing the push does afterwards
\* changes the store, it is never committed, and it answers with an error.
C12_Cancellation ==
  /\ [][\A r \in Reqs :
          (tx'[r].canceled /\ (~tx[r].canceled \/ pc'[r] # pc[r]))
          => /\ db' = db
             /\ tx'[r].state = "rolledback"
             /\ tx'[r].writes = NoEffects]_vars
  /\ [](\A r \in Reqs :
          tx[r].canceled
          => /\ tx[r].state = "rolledback"
             /\ pc[r] = "done" => status[r] = StatusInternalServerError)

\* a push was cancelled after the Handler had gone through its batch and
\* ended in an error, while the store holds only another push's batch
C12_Witness ==
  \E r, q \in Reqs :
    /\ tx[r].canceled /\ pc[r] = "done" /\ tx[r].err = "txdone"
    /\ Len(Batch(r)) > 0 /\ status[r] = StatusInternalServerError
    /\ Committed(q) /\ Len(Batch(q)) > 0
    /\ db.applied = Effects(req[q].clientGroupID, Batch(q), Len(Batch(q)))

\* C13 (as claimed): a push is answered with a failure for a serialization
\* conflict only after the core has tried it again at least once.
C13_ConflictRetried ==
  \A r \in Reqs :
    (pc[r] = "done" /\ tx[r].err = "conflict") => calls[r] >= 2

\* C14: a request has at most one transaction, its own, opened at
\* serializable isolation; the transaction the Handler is given is that one,
\* and it is the one that is then committed or rolled back.
C14_OneTransaction ==
  \A r \in Reqs :
    /\ tx[r].id \in {0, r}
    /\ tx[r].id = 0 <=> tx[r].state = "none"
    /\ tx[r].id # 0 => tx[r].isolation = "serializable"
    /\ pc[r] \in {"handler", "commit"} => tx[r].id = r
    /\ calls[r] > 0 => (given[r].tx = r /\ tx[r].id = r /\ tx[r].state # "none")
    /\ Committed(r) => given[r].tx = r

\* a push committed through the transaction its Handler was given
C14_Witness ==
  \E r \in Reqs :
    /\ Committed(r) /\ calls[r] = 1 /\ given[r].tx = r /\ Len(Batch(r)) > 0
    /\ tx[r].isolation = "serializable"

\* C15: the Handler is invoked with the request's token, ClientGroupID,
\* ProfileID and SchemaVersion and with its mutations as received, in order.
C15_OpaqueForwarding ==
  \A r \in Reqs :
    /\ calls[r] = 0 => given[r] = NoRequest
    /\ calls[r] > 0 =>
         /\ given[r].info.auth = req[r].auth
         /\ given[r].info.clientGroupID = req[r].clientGroupID
         /\ given[r].info.profileID = req[r].profileID
         /\ given[r].info.schemaVersion = req[r].schemaVersion
         /\ Len(given[r].mutations) = Len(req[r].mutations)
         /\ \A i \in 1..Len(req[r].mutations) : given[r].mutations[i] = req[r].mutations[i]

\* the Handler was invoked with a batch of two different mutations
C15_Witness ==
  \E r \in Reqs :
    /\ calls[r] = 1 /\ Len(given[r].mutations) = 2
    /\ given[r].mutations[1] # given[r].mutations[2]
    /\ given[r].info.profileID = "p2" /\ given[r].info.auth = "t1"

\* C16: a finished push has answered 200 or 500, and 200 exactly when it
\* decoded with pushVersion 1, its transaction began, the Handler returned no
\* error and the commit succeeded.
C16_StatusReflectsDurability ==
  \A r \in Reqs :
    /\ pc[r] # "done" => status[r] = 0
    /\ pc[r] = "done" =>
         /\ status[r] \in {StatusOK, StatusInternalServerError}
         /\ status[r] = StatusOK <=>
              /\ req[r].decodes /\ req[r].pushVersion = 1
              /\ tx[r].id = r /\ calls[r] = 1
              /\ tx[r].err = "none" /\ Committed(r)

\* one push was answered 200, another 500 after its Handler failed part-way
C16_Witness ==
  \E r, q \in Reqs :
    /\ pc[q] = "done" /\ status[q] = StatusOK /\ Len(Batch(q)) > 0
    /\ pc[r] = "done" /\ status[r] = StatusInternalServerError
    /\ tx[r].err = "handler" /\ tx[r].applied > 0

\* C19 (as claimed): the Handler is invoked at most once for a request, and
\* only while the request's transaction is open; a request whose BeginTx
\* failed never has it invoked and answers 500.
C19_HandlerWhileOpen ==
  /\ [][\A r \in Reqs :
          calls'[r] # calls[r] => (calls[r] = 0 /\ tx[r].state = "open")]_vars
  /\ [](\A r \in Reqs :
          tx[r].err = "begin" => (calls[r] = 0 /\ status[r] = StatusInternalServerError))

\* C19 (amended): the Handler is invoked at most once for a request, after
\* BeginTx succeeded and before handlePush commits the transaction or rolls
\* it back: the transaction is open, or was rolled back by a cancelled
\* context.  A request whose BeginTx failed never has it invoked and answers
\* 500.
C19_HandlerWindow ==
  /\ [][\A r \in Reqs :
          calls'[r] # calls[r]
          => /\ calls[r] = 0 /\ calls'[r] = 1
             /\ pc[r] = "handler" /\ tx[r].id = r /\ tx[r].err = "none"
             /\ tx[r].state = "open" \/ (tx[r].state = "rolledback" /\ tx[r].canceled)]_vars
  /\ [](\A r \in Reqs :
          /\ calls[r] <= 1
          /\ tx[r].err = "begin" =>
               (calls[r] = 0 /\ pc[r] = "done" /\ status[r] = StatusInternalServerError))

\* the Handler was invoked for one push, and not for one whose BeginTx failed
C19_Witness ==
  \E r, q \in Reqs :
    /\ calls[r] = 1 /\ tx[r].id = r
    /\ tx[q].err = "begin" /\ calls[q] = 0 /\ status[q] = StatusInternalServerError

\* C20: a transaction is open only while its request is between BeginTx and
\* the return of handlePush; a finished request's transaction is committed or
\* rolled back, one or the other: committed with no error, rolled back with
\* nothing left in it.
C20_NoTransactionOutlives ==
  \A r \in Reqs :
    /\ tx[r].state = "open" => pc[r] \in {"handler", "commit"}
    /\ pc[r] = "done" =>
         /\ tx[r].state \in {"none", "committed", "rolledback"}
         /\ tx[r].writes = NoEffects
         /\ Committed(r) => (tx[r].err = "none" /\ ~tx[r].canceled)
         /\ tx[r].state = "rolledback" => tx[r].err # "none"

\* every push has returned: one committed, one rolled back after a failed
\* commit
C20_Witness ==
  \E r, q \in Reqs :
    /\ \A x \in Reqs : pc[x] = "done"
    /\ Committed(q)
    /\ tx[r].state = "rolledback" /\ tx[r].err \in {"commit", "conflict"}

\* C18 (as claimed): a pull of a group taken after one of its pushes has
\* committed holds that push's effects in its patch and reports, for every
\* client of that push, a LastMutationID that has advanced to the push's
\* mutations; the pull changes nothing in the store.
C18_PullConsistency ==
  /\ [][pulled' # pulled => db' = db]_vars
  /\ [](\A r \in Reqs :
          (/\ Committed(r) /\ pulled.clientGroupID = req[r].clientGroupID
           /\ tx[r].endedAt <= pulled.at)
          => \A i \in 1..Len(Batch(r)) :
               /\ pulled.patch[<<req[r].clientGroupID, Batch(r)[i].clientID, Batch(r)[i].id>>] >= 1
               /\ pulled.lastMutationIDChanges[Batch(r)[i].clientID] >= Batch(r)[i].id)

====
